---------------------------- MODULE Spec2Model ----------------------------
(***************************************************************************)
(* Work Hours Calculator (src/app.py).                                     *)
(*                                                                         *)
(* Texts are sequences of one-character strings, so that stripping,        *)
(* slicing, padding and parsing are computed character by character the    *)
(* way the Python code computes them.  Durations (timedelta) are whole     *)
(* minutes: every instant the program builds comes from an HH:MM reading.  *)
(*                                                                         *)
(* Four specifications share the variables:                                *)
(*   Spec      the application: session state, callbacks and the script    *)
(*             run that follows every interaction;                         *)
(*   CalcSpec  calculate_time_difference applied to pairs of texts;        *)
(*   NormSpec  format_time_input applied (and re-applied) to raw texts;    *)
(*   RowSpec   one pass of the daily loop body over a field pair and a     *)
(*             clock reading.                                              *)
(***************************************************************************)
EXTENDS Integers, Sequences, FiniteSets, TLC

VARIABLES
    session_state,    \* [<<field, day>> -> text]: st.session_state["in_Monday"] ...
    now,              \* minute of day read by datetime.now() in the last script run
    rows,             \* [day -> [error, td, suffix, button]] as the last run left them
    total_duration,   \* minutes
    total_hours_str,  \* text shown next to "Total Hours:"
    last_action,      \* [op, day]: the interaction that caused the last run (day: of a clear)
    fn_in,            \* function harness: first text argument
    fn_out,           \* function harness: second text argument
    fn_now,           \* function harness: clock reading
    fn_ret,           \* function harness: what the call returned
    fn_pc             \* function harness: "idle", "call", "done", "again"

appVars == <<session_state, now, rows, total_duration, total_hours_str, last_action>>
fnVars == <<fn_in, fn_out, fn_now, fn_ret, fn_pc>>
vars == <<session_state, now, rows, total_duration, total_hours_str, last_action,
          fn_in, fn_out, fn_now, fn_ret, fn_pc>>

---------------------------------------------------------------------------
(* Bounds of the exploration.                                              *)

\* Raw texts typed into a field have at most this many characters.
MaxRawLen == 5
\* Clock-shaped texts DD:DD are enumerated with the hour part 00..MaxHourText.
MaxHourText == 25
\* The user edits the first MaxDaysTouched days of the week; the others
\* stay in the session state, empty.
MaxDaysTouched == 2

\* Characters a raw text is typed from.
RawChars == {"0", "1", "2", "3", "4", "5", "9", ":", "x"}
\* Minute parts of the enumerated clock-shaped texts.
SampleMinutes == {0, 1, 30, 59, 60, 99}
\* Clock readings (minute of day) of the application's runs and callbacks.
ClockSamples == {480, 1050}
\* Clock readings of a single pass of the daily loop body.
RowClock == {0, 539, 540, 541, 1439}

---------------------------------------------------------------------------
(* Text helpers: Python's str.isdigit, int(), zero padding and {n}.        *)

DigitChars == <<"0", "1", "2", "3", "4", "5", "6", "7", "8", "9">>

isdigit(c) == \E i \in 1..10 : DigitChars[i] = c

DigitVal(c) == (CHOOSE i \in 1..10 : DigitChars[i] = c) - 1

RECURSIVE int(_)
int(digits) ==
    IF Len(digits) = 0 THEN 0
    ELSE 10 * int(SubSeq(digits, 1, Len(digits) - 1)) + DigitVal(digits[Len(digits)])

RECURSIVE str(_)
str(n) ==
    IF n < 10 THEN <<DigitChars[n + 1]>>
    ELSE str(n \div 10) \o <<DigitChars[(n % 10) + 1]>>

\* "%H" and "%M" of strftime: two digits, zero padded.
Pad2(n) == <<DigitChars[(n \div 10) + 1], DigitChars[(n % 10) + 1]>>

\* datetime.now().strftime("%H:%M") for a clock reading in minutes of day.
strftime(t) == Pad2(t \div 60) \o <<":">> \o Pad2(t % 60)

Sentinel == <<"2", "4", ":", "0", "0">>

\* Python's None where a timedelta is expected; no duration is negative.
None == -1

---------------------------------------------------------------------------
(* format_timedelta                                                        *)

format_timedelta(td) ==
    IF td = None THEN <<"0", "h", " ", "0", "m">>
    ELSE LET total_seconds == td * 60
             hours == total_seconds \div 3600
             minutes == (total_seconds % 3600) \div 60
         IN  str(hours) \o <<"h", " ">> \o str(minutes) \o <<"m">>

---------------------------------------------------------------------------
(* datetime.strptime(s, "%H:%M").  The format compiles to the regular      *)
(* expression (2[0-3]|[0-1]\d|\d):([0-5]\d|\d), matched at the start of    *)
(* the text; a text with no match, or with characters left after the       *)
(* match, raises ValueError.                                               *)

\* Length of the hour group the regular expression settles on (0: no match).
HourGroupLen(s) ==
    IF /\ Len(s) >= 3
       /\ \/ s[1] = "2" /\ s[2] \in {"0", "1", "2", "3"}
          \/ s[1] \in {"0", "1"} /\ isdigit(s[2])
       /\ s[3] = ":"
    THEN 2
    ELSE IF Len(s) >= 2 /\ isdigit(s[1]) /\ s[2] = ":" THEN 1
    ELSE 0

\* Length of the minute group matched from position p (0: no match).
MinuteGroupLen(s, p) ==
    IF /\ Len(s) >= p + 1
       /\ s[p] \in {"0", "1", "2", "3", "4", "5"}
       /\ isdigit(s[p + 1])
    THEN 2
    ELSE IF Len(s) >= p /\ isdigit(s[p]) THEN 1
    ELSE 0

strptime(s) ==
    LET hl == HourGroupLen(s)
        ml == IF hl = 0 THEN 0 ELSE MinuteGroupLen(s, hl + 2)
    IN  IF hl = 0 \/ ml = 0 \/ hl + 1 + ml # Len(s)
        THEN [exc |-> "ValueError", hour |-> 0, minute |-> 0]
        ELSE [exc |-> "none",
              hour |-> int(SubSeq(s, 1, hl)),
              minute |-> int(SubSeq(s, hl + 2, hl + 1 + ml))]

---------------------------------------------------------------------------
(* calculate_time_difference.  Instants are minutes since the start of     *)
(* base_date.  The body of the try block yields either a duration or the   *)
(* exception it raised; the except clause turns ValueError and TypeError   *)
(* into timedelta(0).                                                      *)

\* Variant: an out-time equal to the in-time is moved to the next day
\* (<= for <).
calculate_time_difference_body_wrap_equal(in_time_str, out_time_str) ==
    LET start == strptime(in_time_str)
        end == IF out_time_str = Sentinel
               THEN [exc |-> "none", hour |-> 24, minute |-> 0]
               ELSE strptime(out_time_str)
        start_datetime == start.hour * 60 + start.minute
        end_parsed == end.hour * 60 + end.minute
        end_datetime == IF end_parsed <= start_datetime
                        THEN end_parsed + 1440
                        ELSE end_parsed
    IN  IF start.exc # "none" THEN [exc |-> start.exc, td |-> 0]
        ELSE IF end.exc # "none" THEN [exc |-> end.exc, td |-> 0]
        ELSE [exc |-> "none", td |-> end_datetime - start_datetime]

\* Variant: no special case for the out-time "24:00".
calculate_time_difference_body_no_sentinel(in_time_str, out_time_str) ==
    LET start == strptime(in_time_str)
        end == strptime(out_time_str)
        start_datetime == start.hour * 60 + start.minute
        end_parsed == end.hour * 60 + end.minute
        end_datetime == IF end_parsed < start_datetime
                        THEN end_parsed + 1440
                        ELSE end_parsed
    IN  IF start.exc # "none" THEN [exc |-> start.exc, td |-> 0]
        ELSE IF end.exc # "none" THEN [exc |-> end.exc, td |-> 0]
        ELSE [exc |-> "none", td |-> end_datetime - start_datetime]

calculate_time_difference_body(in_time_str, out_time_str) ==
    LET start == strptime(in_time_str)
        end == IF out_time_str = Sentinel
               THEN [exc |-> "none", hour |-> 24, minute |-> 0]
               ELSE strptime(out_time_str)
        start_datetime == start.hour * 60 + start.minute
        end_parsed == end.hour * 60 + end.minute
        end_datetime == IF end_parsed < start_datetime
                        THEN end_parsed + 1440
                        ELSE end_parsed
    IN  IF start.exc # "none" THEN [exc |-> start.exc, td |-> 0]
        ELSE IF end.exc # "none" THEN [exc |-> end.exc, td |-> 0]
        ELSE [exc |-> "none", td |-> end_datetime - start_datetime]

\* Variant: the except clause catches TypeError only.
calculate_time_difference_type_error_only(in_time_str, out_time_str) ==
    LET r == calculate_time_difference_body(in_time_str, out_time_str)
    IN  IF r.exc \in {"TypeError"}
        THEN [exc |-> "none", td |-> 0]
        ELSE r

calculate_time_difference(in_time_str, out_time_str) ==
    LET r == calculate_time_difference_body(in_time_str, out_time_str)
    IN  IF r.exc \in {"ValueError", "TypeError"}
        THEN [exc |-> "none", td |-> 0]
        ELSE r

---------------------------------------------------------------------------
(* format_time_input                                                       *)

\* Variant: the three-digit test compares the first two digits with 24.
format_time_input_hour_24(time_str) ==
    IF time_str = <<>> THEN <<>>
    ELSE LET kept == SelectSeq(time_str, isdigit)
             digits == SubSeq(kept, 1, IF Len(kept) < 4 THEN Len(kept) ELSE 4)
         IN  IF Len(digits) = 3
             THEN IF int(SubSeq(digits, 1, 2)) > 24
                  THEN <<"0", digits[1], ":">> \o SubSeq(digits, 2, 3)
                  ELSE SubSeq(digits, 1, 2) \o <<":">> \o SubSeq(digits, 3, 3)
             ELSE IF Len(digits) = 4
             THEN SubSeq(digits, 1, 2) \o <<":">> \o SubSeq(digits, 3, 4)
             ELSE digits

\* Variant: the digits are cut to three ([:3] for [:4]).
format_time_input_three_digits(time_str) ==
    IF time_str = <<>> THEN <<>>
    ELSE LET kept == SelectSeq(time_str, isdigit)
             digits == SubSeq(kept, 1, IF Len(kept) < 3 THEN Len(kept) ELSE 3)
         IN  IF Len(digits) = 3
             THEN IF int(SubSeq(digits, 1, 2)) > 23
                  THEN <<"0", digits[1], ":">> \o SubSeq(digits, 2, 3)
                  ELSE SubSeq(digits, 1, 2) \o <<":">> \o SubSeq(digits, 3, 3)
             ELSE IF Len(digits) = 4
             THEN SubSeq(digits, 1, 2) \o <<":">> \o SubSeq(digits, 3, 4)
             ELSE digits

format_time_input(time_str) ==
    IF time_str = <<>> THEN <<>>
    ELSE LET kept == SelectSeq(time_str, isdigit)
             digits == SubSeq(kept, 1, IF Len(kept) < 4 THEN Len(kept) ELSE 4)
         IN  IF Len(digits) = 3
             THEN IF int(SubSeq(digits, 1, 2)) > 23
                  THEN <<"0", digits[1], ":">> \o SubSeq(digits, 2, 3)
                  ELSE SubSeq(digits, 1, 2) \o <<":">> \o SubSeq(digits, 3, 3)
             ELSE IF Len(digits) = 4
             THEN SubSeq(digits, 1, 2) \o <<":">> \o SubSeq(digits, 3, 4)
             ELSE digits

---------------------------------------------------------------------------
(* One pass of the daily loop body for a day whose fields hold in_time and *)
(* out_time, the run having read the clock as t.                           *)

\* Validation of in_time.
in_time_error(in_time) ==
    /\ in_time # <<>>
    /\ Len(in_time) = 5
    /\ \/ in_time = Sentinel
       \/ strptime(in_time).exc = "ValueError"

\* Variant: the out-time "24:00" goes to the parser like any other.
out_time_error_no_sentinel(out_time) ==
    /\ out_time # <<>>
    /\ Len(out_time) = 5
    /\ strptime(out_time).exc = "ValueError"

\* Validation of out_time, run only when in_time raised no error.
out_time_error(out_time) ==
    /\ out_time # <<>>
    /\ Len(out_time) = 5
    /\ out_time # Sentinel
    /\ strptime(out_time).exc = "ValueError"

row_error(in_time, out_time) ==
    \/ in_time_error(in_time)
    \/ ~in_time_error(in_time) /\ out_time_error(out_time)

\* Condition under which the "End Now" button is rendered.
row_end_button(in_time, out_time) ==
    /\ ~row_error(in_time, out_time)
    /\ in_time # <<>>
    /\ out_time = <<>>

\* Variant: the second case asks for an out-time that is not complete
\* rather than for an empty one.
row_duration_unless_complete(in_time, out_time, t) ==
    LET ok == ~row_error(in_time, out_time)
    IN  IF ok /\ Len(in_time) = 5 /\ Len(out_time) = 5
        THEN [td |-> calculate_time_difference(in_time, out_time).td, suffix |-> <<>>]
        ELSE IF ok /\ Len(in_time) = 5 /\ Len(out_time) # 5
        THEN [td |-> calculate_time_difference(in_time, strftime(t)).td,
              suffix |-> <<" ", "(", "s", "o", " ", "f", "a", "r", ")">>]
        ELSE [td |-> 0, suffix |-> <<>>]

\* daily_duration and duration_suffix.
row_duration(in_time, out_time, t) ==
    LET ok == ~row_error(in_time, out_time)
    IN  IF ok /\ Len(in_time) = 5 /\ Len(out_time) = 5
        THEN [td |-> calculate_time_difference(in_time, out_time).td, suffix |-> <<>>]
        ELSE IF ok /\ Len(in_time) = 5 /\ out_time = <<>>
        THEN [td |-> calculate_time_difference(in_time, strftime(t)).td,
              suffix |-> <<" ", "(", "s", "o", " ", "f", "a", "r", ")">>]
        ELSE [td |-> 0, suffix |-> <<>>]

\* What column 5 shows: the error box or the formatted duration.
row_display(in_time, out_time, t) ==
    IF row_error(in_time, out_time)
    THEN <<"N", "o", "t", " ", "a", " ", "r", "e", "a", "l", " ", "t", "i", "m", "e">>
    ELSE format_timedelta(row_duration(in_time, out_time, t).td)
             \o row_duration(in_time, out_time, t).suffix

---------------------------------------------------------------------------
(* The application.  Every interaction runs its callback and then the      *)
(* whole script once, which reads the clock and recomputes each row and    *)
(* the total from the session state.                                       *)

days == <<"Monday", "Tuesday", "Wednesday", "Thursday", "Friday", "Saturday", "Sunday">>

Days == {days[i] : i \in 1..Len(days)}

key(field, day) == <<field, day>>

Keys == {key(f, d) : f \in {"in", "out"}, d \in Days}

\* The rows the loop computes from session state ss with the clock at t.
rows_of(ss, t) ==
    [d \in Days |->
        LET in_time == ss[key("in", d)]
            out_time == ss[key("out", d)]
            duration == row_duration(in_time, out_time, t)
        IN  [error |-> row_error(in_time, out_time),
             td |-> duration.td,
             suffix |-> duration.suffix,
             button |-> row_end_button(in_time, out_time)]]

\* total_duration after the loop has passed the first n days.
RECURSIVE total_after(_, _)
total_after(rs, n) ==
    IF n = 0 THEN 0 ELSE total_after(rs, n - 1) + rs[days[n]].td

\* The state a script run leaves, from session state ss with the clock at t.
Run(ss, t, action) ==
    /\ session_state' = ss
    /\ now' = t
    /\ rows' = rows_of(ss, t)
    /\ total_duration' = total_after(rows', Len(days))
    /\ total_hours_str' = format_timedelta(total_duration')
    /\ last_action' = action

\* What the last run left for each day.
error_in_row(day) == rows[day].error
daily_duration(day) == rows[day].td
duration_suffix(day) == rows[day].suffix
end_button(day) == rows[day].button

\* Session state after each callback.
format_input_callback(ss, day, field, raw_value) ==
    [ss EXCEPT ![key(field, day)] = format_time_input(raw_value)]

end_now_callback(ss, day, t) ==
    [ss EXCEPT ![key("out", day)] = strftime(t)]

\* Variant: only the out-time is cleared.
clear_day_callback_out_only(ss, day) ==
    [ss EXCEPT ![key("out", day)] = <<>>]

clear_day_callback(ss, day) ==
    [ss EXCEPT ![key("in", day)] = <<>>, ![key("out", day)] = <<>>]

\* Variant: only the in-times are cleared.
reset_all_callback_in_only(ss) ==
    [k \in Keys |-> IF k[1] = "in" THEN <<>> ELSE ss[k]]

reset_all_callback(ss) ==
    [k \in Keys |-> IF k[2] \in Days THEN <<>> ELSE ss[k]]

\* Session state after the initialisation block of the first run.
InitialSessionState == [k \in Keys |-> <<>>]

\* Inputs of the exploration.
TouchedDays == {days[i] : i \in 1..MaxDaysTouched}

\* Raw texts the user types: nothing, a first digit, a real time and an
\* impossible one as in-time; nothing and an impossible time as out-time
\* (real out-times come from "End Now").
RawInputs(field) ==
    IF field = "in"
    THEN {<<>>, <<"9">>, <<"0", "9", "0", "0">>, <<"2", "5", "3", "0">>}
    ELSE {<<>>, <<"2", "5", "3", "0">>}

NoAction == [op |-> "start", day |-> "-"]

\* The state the first script run leaves, the clock at t.
AppAtStart(t) ==
    /\ session_state = InitialSessionState
    /\ now = t
    /\ rows = rows_of(InitialSessionState, t)
    /\ total_duration = total_after(rows, Len(days))
    /\ total_hours_str = format_timedelta(total_duration)
    /\ last_action = NoAction

Init ==
    /\ \E t \in ClockSamples : AppAtStart(t)
    /\ fn_in = <<>>
    /\ fn_out = <<>>
    /\ fn_now = 0
    /\ fn_ret = <<>>
    /\ fn_pc = "idle"

\* The user commits a new text in a field: the widget stores it under the
\* key, on_change runs format_input_callback, the script runs.
SetField(day, field, raw, t) ==
    /\ raw # session_state[key(field, day)]
    /\ Run(format_input_callback([session_state EXCEPT ![key(field, day)] = raw],
                                 day, field, raw),
           t, [op |-> "set", day |-> "-"])
    /\ UNCHANGED fnVars

\* The user clicks "End Now" of a day; the callback reads the clock at tc,
\* the run that follows at t.
EndNow(day, tc, t) ==
    /\ end_button(day)
    /\ Run(end_now_callback(session_state, day, tc), t, [op |-> "end", day |-> "-"])
    /\ UNCHANGED fnVars

ClearDay(day, t) ==
    /\ Run(clear_day_callback(session_state, day), t, [op |-> "clear", day |-> day])
    /\ UNCHANGED fnVars

ResetAll(t) ==
    /\ Run(reset_all_callback(session_state), t, [op |-> "reset", day |-> "-"])
    /\ UNCHANGED fnVars

Next ==
    \/ \E d \in TouchedDays, f \in {"in", "out"}, t \in ClockSamples :
          \E r \in RawInputs(f) : SetField(d, f, r, t)
    \/ \E d \in TouchedDays, tc \in ClockSamples, t \in ClockSamples : EndNow(d, tc, t)
    \/ \E d \in TouchedDays, t \in ClockSamples : ClearDay(d, t)
    \/ \E t \in ClockSamples : ResetAll(t)

Spec == Init /\ [][Next]_vars

TypeOK ==
    /\ DOMAIN session_state = Keys
    /\ now \in 0..1439
    /\ total_duration \in Nat

---------------------------------------------------------------------------
(* The functions on their own: each specification draws the arguments in   *)
(* its initial states and applies the function.                            *)

\* Texts of the shape DD:DD, real times and impossible ones.
ClockTexts == {Pad2(h) \o <<":">> \o Pad2(m) : h \in 0..MaxHourText, m \in SampleMinutes}

\* Texts a field holds while a time is being typed (format_time_input of
\* "9", "12" and "123").
PartialFieldTexts == {<<>>, <<"9">>, <<"1", "2">>, <<"1", "2", ":", "3">>}

\* Every text a field can hold here: format_time_input of one to four digits.
FieldTexts == ClockTexts \cup PartialFieldTexts

\* Further texts calculate_time_difference can be handed.
OddTexts ==
    {<<"1", ":", "5">>, <<"9", ":", "3", "0">>, <<"1", "2", ":">>, <<":", "3", "0">>,
     <<"1", "2", "3", "0">>, <<"1", "2", ":", "3", "0", "0">>, <<"1", ":", "2", "3", "4">>,
     <<"x", "x", ":", "x", "x">>, <<"1", "2", ";", "3", "0">>, <<"0", "9", ":", "3", "x">>}

CalcTexts == FieldTexts \cup OddTexts

\* Raw texts of at most MaxRawLen characters.
RawTexts == UNION {[1..n -> RawChars] : n \in 0..MaxRawLen}

CalcInit ==
    /\ AppAtStart(0)
    /\ fn_in \in CalcTexts
    /\ fn_out \in CalcTexts
    /\ fn_now = 0
    /\ fn_ret = <<>>
    /\ fn_pc = "call"

\* fn_ret = calculate_time_difference(fn_in, fn_out)
Calculate ==
    /\ fn_pc = "call"
    /\ fn_ret' = calculate_time_difference(fn_in, fn_out)
    /\ fn_pc' = "done"
    /\ UNCHANGED <<fn_in, fn_out, fn_now>>
    /\ UNCHANGED appVars

CalcSpec == CalcInit /\ [][Calculate]_vars

NormInit ==
    /\ AppAtStart(0)
    /\ fn_in \in RawTexts
    /\ fn_out = <<>>
    /\ fn_now = 0
    /\ fn_ret = <<>>
    /\ fn_pc = "call"

\* The field holds the raw text fn_in; format_input_callback stores
\* format_time_input of it back (fn_out).
Normalize ==
    /\ fn_pc = "call"
    /\ fn_out' = format_time_input(fn_in)
    /\ fn_pc' = "done"
    /\ UNCHANGED <<fn_in, fn_now, fn_ret>>
    /\ UNCHANGED appVars

\* The callback runs again on the text it stored (fn_ret).
NormalizeAgain ==
    /\ fn_pc = "done"
    /\ fn_ret' = format_time_input(fn_out)
    /\ fn_pc' = "again"
    /\ UNCHANGED <<fn_in, fn_out, fn_now>>
    /\ UNCHANGED appVars

NormNext == Normalize \/ NormalizeAgain

NormSpec == NormInit /\ [][NormNext]_vars

RowInit ==
    /\ AppAtStart(0)
    /\ fn_in \in FieldTexts
    /\ fn_out \in FieldTexts
    /\ fn_now \in RowClock
    /\ fn_ret = <<>>
    /\ fn_pc = "call"

\* One pass of the loop body over the fields fn_in, fn_out with the clock
\* at fn_now.
EvaluateRow ==
    /\ fn_pc = "call"
    /\ fn_ret' = [error |-> row_error(fn_in, fn_out),
                  td |-> row_duration(fn_in, fn_out, fn_now).td,
                  suffix |-> row_duration(fn_in, fn_out, fn_now).suffix,
                  button |-> row_end_button(fn_in, fn_out),
                  display |-> row_display(fn_in, fn_out, fn_now)]
    /\ fn_pc' = "done"
    /\ UNCHANGED <<fn_in, fn_out, fn_now>>
    /\ UNCHANGED appVars

RowSpec == RowInit /\ [][EvaluateRow]_vars

---------------------------------------------------------------------------
(* Vocabulary of the claims, stated on texts without the parser.           *)

AllDigits(s) == \A i \in 1..Len(s) : isdigit(s[i])

\* s has the shape DD:DD.
IsCanonical(s) ==
    /\ Len(s) = 5
    /\ s[3] = ":"
    /\ AllDigits(SubSeq(s, 1, 2))
    /\ AllDigits(SubSeq(s, 4, 5))

\* s is a valid 24-hour time HH:MM, hour 0..23 and minute 0..59.
IsRealTime(s) ==
    /\ IsCanonical(s)
    /\ int(SubSeq(s, 1, 2)) <= 23
    /\ int(SubSeq(s, 4, 5)) <= 59

MinuteOfDay(s) == int(SubSeq(s, 1, 2)) * 60 + int(SubSeq(s, 4, 5))

\* s is an hour and a minute around a colon, one or two digits each,
\* hour 0..23 and minute 0..59 ("09:30", "9:30", "12:3").
IsClockReading(s) ==
    \E p \in {2, 3} :
        /\ Len(s) \in {p + 1, p + 2}
        /\ s[p] = ":"
        /\ AllDigits(SubSeq(s, 1, p - 1))
        /\ AllDigits(SubSeq(s, p + 1, Len(s)))
        /\ int(SubSeq(s, 1, p - 1)) <= 23
        /\ int(SubSeq(s, p + 1, Len(s))) <= 59

\* Clock difference from minute a to minute b, wrapping past midnight.
ClockDiff(a, b) == IF b >= a THEN b - a ELSE b - a + 1440

SoFar == <<" ", "(", "s", "o", " ", "f", "a", "r", ")">>

---------------------------------------------------------------------------
(* Claims about calculate_time_difference (CalcSpec).                      *)

\* C1: for every pair of valid 24-hour times, calculate_time_difference is
\* out - in in clock minutes when out >= in and out - in + 1440 when
\* out < in; equal times give 0 minutes, not 24 hours.
C1_ValidPairDifference ==
    (fn_pc = "done" /\ IsRealTime(fn_in) /\ IsRealTime(fn_out))
        => /\ fn_ret.exc = "none"
           /\ fn_ret.td = ClockDiff(MinuteOfDay(fn_in), MinuteOfDay(fn_out))
           /\ (fn_in = fn_out => fn_ret.td = 0)

\* An overnight pair has been computed: 22:00 to 06:00 is 8 hours.
C1_Witness ==
    /\ fn_pc = "done"
    /\ fn_in = <<"2", "2", ":", "0", "0">>
    /\ fn_out = <<"0", "6", ":", "0", "0">>
    /\ fn_ret.td = 480

\* C2: "24:00" is accepted only as an out-time: for a valid in-time the
\* result is 1440 minus the in-time's minute of day, never a day more; as
\* an in-time it gives the zero duration whatever the out-time.
C2_SentinelOnlyAsOut ==
    fn_pc = "done"
        => /\ (IsRealTime(fn_in) /\ fn_out = Sentinel)
                  => fn_ret = [exc |-> "none", td |-> 1440 - MinuteOfDay(fn_in)]
           /\ fn_in = Sentinel => fn_ret = [exc |-> "none", td |-> 0]

\* 09:00 to 24:00 has been computed as 15 hours.
C2_Witness ==
    /\ fn_pc = "done"
    /\ fn_in = <<"0", "9", ":", "0", "0">>
    /\ fn_out = Sentinel
    /\ fn_ret.td = 900

\* C3 as stated: the function never raises, and the result is zero whenever
\* the in-time or the out-time is not a real time HH:MM (the out-time may be
\* "24:00"), partially typed texts included.
C3_ZeroUnlessRealTimes ==
    fn_pc = "done"
        => /\ fn_ret.exc = "none"
           /\ (~IsRealTime(fn_in) \/ ~(IsRealTime(fn_out) \/ fn_out = Sentinel))
                  => fn_ret.td = 0

\* C3 amended: the function never raises, and the result is zero whenever
\* the in-time is not an hour:minute reading (one or two digits each, hour
\* at most 23, minute at most 59) or the out-time is neither such a reading
\* nor "24:00".
C3_ZeroUnlessClockReadings ==
    fn_pc = "done"
        => /\ fn_ret.exc = "none"
           /\ (~IsClockReading(fn_in) \/ ~(IsClockReading(fn_out) \/ fn_out = Sentinel))
                  => fn_ret.td = 0

\* An impossible in-time, 25:30, has been computed against a real out-time.
C3_Witness ==
    /\ fn_pc = "done"
    /\ fn_in = <<"2", "5", ":", "3", "0">>
    /\ fn_out = <<"0", "9", ":", "0", "0">>
    /\ fn_ret = [exc |-> "none", td |-> 0]

---------------------------------------------------------------------------
(* Claims about format_time_input (NormSpec).                              *)

RECURSIVE DigitsOf(_)
DigitsOf(s) ==
    IF s = <<>> THEN <<>>
    ELSE IF isdigit(Head(s)) THEN <<Head(s)>> \o DigitsOf(Tail(s))
    ELSE DigitsOf(Tail(s))

\* The text the claim prescribes for a raw text.
Reshaped(raw) ==
    LET all == DigitsOf(raw)
        n == IF Len(all) > 4 THEN 4 ELSE Len(all)
        d == [i \in 1..n |-> all[i]]
    IN  CASE n = 0 -> <<>>
          [] n = 1 -> <<d[1]>>
          [] n = 2 -> <<d[1], d[2]>>
          [] n = 3 -> IF 10 * DigitVal(d[1]) + DigitVal(d[2]) > 23
                      THEN <<"0", d[1], ":", d[2], d[3]>>
                      ELSE <<d[1], d[2], ":", d[3]>>
          [] n = 4 -> <<d[1], d[2], ":", d[3], d[4]>>

\* C4: format_time_input keeps the first four digits and reshapes them by
\* count: none -> "", one or two -> unchanged, three -> "0d:dd" when the
\* first two exceed 23 and "dd:d" otherwise, four -> "dd:dd" always.
C4_ReshapedByDigitCount ==
    fn_pc \in {"done", "again"} => fn_out = Reshaped(fn_in)

\* "545" has been reshaped to "05:45".
C4_Witness ==
    /\ fn_pc = "done"
    /\ fn_in = <<"5", "4", "5">>
    /\ fn_out = <<"0", "5", ":", "4", "5">>

\* C5: format_time_input returns every text of the shape DD:DD unchanged,
\* and applied to one of its own outputs it returns that output.
C5_Idempotent ==
    /\ (fn_pc \in {"done", "again"} /\ IsCanonical(fn_in)) => fn_out = fn_in
    /\ fn_pc = "again" => fn_ret = fn_out

\* The partial output "12:3" has been fed back and came out unchanged.
C5_Witness ==
    /\ fn_pc = "again"
    /\ fn_in = <<"1", "2", "3">>
    /\ fn_out = <<"1", "2", ":", "3">>
    /\ fn_ret = <<"1", "2", ":", "3">>

---------------------------------------------------------------------------
(* Claims about one pass of the daily loop body (RowSpec).                 *)

\* C6: a day is in error state exactly when its in-time is 5 characters
\* long and not a real time (or is "24:00"), or otherwise its out-time is 5
\* characters long and neither a real time nor "24:00"; a day whose fields
\* are both shorter than 5 characters is never in error state.
C6_ErrorState ==
    fn_pc = "done"
        => /\ fn_ret.error
                  <=> \/ Len(fn_in) = 5 /\ (~IsRealTime(fn_in) \/ fn_in = Sentinel)
                      \/ /\ ~(Len(fn_in) = 5 /\ (~IsRealTime(fn_in) \/ fn_in = Sentinel))
                         /\ Len(fn_out) = 5
                         /\ ~IsRealTime(fn_out)
                         /\ fn_out # Sentinel
           /\ (Len(fn_in) < 5 /\ Len(fn_out) < 5) => ~fn_ret.error

\* A row with a real in-time and the out-time "24:00" was evaluated and is
\* not in error state.
C6_Witness ==
    /\ fn_pc = "done"
    /\ fn_in = <<"0", "9", ":", "0", "0">>
    /\ fn_out = Sentinel
    /\ ~fn_ret.error

\* C10: with a valid in-time and an empty out-time the duration is the
\* clock difference from the in-time to the clock reading of the run, never
\* negative, annotated " (so far)"; with a complete in-time and a partially
\* typed out-time the duration is zero and carries no annotation.
C10_SoFarDuration ==
    fn_pc = "done"
        => /\ (~fn_ret.error /\ IsRealTime(fn_in) /\ fn_out = <<>>)
                  => /\ fn_ret.td >= 0
                     /\ fn_ret.td = ClockDiff(MinuteOfDay(fn_in), fn_now)
                     /\ fn_ret.suffix = SoFar
                     /\ fn_ret.display = format_timedelta(fn_ret.td) \o SoFar
           /\ (Len(fn_in) = 5 /\ fn_out # <<>> /\ Len(fn_out) < 5)
                  => /\ fn_ret.td = 0
                     /\ fn_ret.suffix = <<>>

\* In-time 09:00, no out-time, the clock at 08:59: 23 hours 59 minutes so
\* far.
C10_Witness ==
    /\ fn_pc = "done"
    /\ fn_in = <<"0", "9", ":", "0", "0">>
    /\ fn_out = <<>>
    /\ fn_now = 539
    /\ fn_ret.td = 1439
    /\ fn_ret.suffix = SoFar

---------------------------------------------------------------------------
(* Claims about the application (Spec).                                    *)

OtherDays(day) == Days \ {day}

\* A day whose duration is the provisional one, measured against the clock.
InSoFarState(day) == duration_suffix(day) = SoFar

\* C7 as stated: a clear-day lowers the week total of the next run by
\* exactly the duration the day contributed before, and leaves every other
\* day's fields and contributed duration unchanged.
C7_ClearRemovesExactly ==
    [][last_action'.op = "clear"
          => LET day == last_action'.day
             IN  /\ total_duration' = total_duration - rows[day].td
                 /\ rows'[day].td = 0
                 /\ \A e \in OtherDays(day) :
                       /\ session_state'[key("in", e)] = session_state[key("in", e)]
                       /\ session_state'[key("out", e)] = session_state[key("out", e)]
                       /\ rows'[e].td = rows[e].td]_vars

\* C7 amended: a clear-day empties the day's fields, so that it contributes
\* nothing to the next run, and leaves every other day's fields unchanged;
\* every other day that is not in "so far" state contributes what it did
\* before, and when no other day is in "so far" state, or the clock reads
\* the same minute as at the previous run, the week total drops by exactly
\* the duration the cleared day contributed before.
C7_ClearRemovesExactlyUnlessSoFar ==
    [][last_action'.op = "clear"
          => LET day == last_action'.day
             IN  /\ session_state'[key("in", day)] = <<>>
                 /\ session_state'[key("out", day)] = <<>>
                 /\ rows'[day].td = 0
                 /\ \A e \in OtherDays(day) :
                       /\ session_state'[key("in", e)] = session_state[key("in", e)]
                       /\ session_state'[key("out", e)] = session_state[key("out", e)]
                       /\ (~InSoFarState(e) \/ now' = now) => rows'[e].td = rows[e].td
                 /\ ((\A e \in OtherDays(day) : ~InSoFarState(e)) \/ now' = now)
                       => total_duration' = total_duration - rows[day].td]_vars

\* A day has just been cleared while another day, with both times
\* recorded, still contributes to the total.
C7_Witness ==
    /\ last_action.op = "clear"
    /\ total_duration > 0
    /\ \A e \in Days : ~InSoFarState(e)

\* C8: after reset-all every in-time and out-time of the seven days is
\* empty and the week total of the run that follows is zero, shown "0h 0m".
C8_ResetAll ==
    last_action.op = "reset"
        => /\ \A d \in Days : /\ session_state[key("in", d)] = <<>>
                              /\ session_state[key("out", d)] = <<>>
           /\ total_duration = 0
           /\ total_hours_str = <<"0", "h", " ", "0", "m">>

\* Reset-all has just run.
C8_Witness ==
    /\ last_action.op = "reset"
    /\ total_hours_str = <<"0", "h", " ", "0", "m">>
    /\ \A k \in Keys : session_state[k] = <<>>

\* C9: "End Now" is offered for a day only when its in-time is a valid,
\* fully typed 24-hour time and its out-time is empty.
C9_EndNowOnlyWithValidInTime ==
    \A d \in Days :
        end_button(d)
            => /\ IsRealTime(session_state[key("in", d)])
               /\ session_state[key("out", d)] = <<>>

=============================================================================
